---- MODULE Spec2Model ----
(***************************************************************************)
(* Model of the static source analyzer of test-gen (src/src/analyzer.js).  *)
(*                                                                         *)
(* Text is modelled character by character: a JavaScript string is a       *)
(* sequence of one-character strings, positions are 1-based (JavaScript's  *)
(* index k is position k + 1 here).                                        *)
(*                                                                         *)
(*   Spec          analyzeFile and detectFramework as the sequence of      *)
(*                 their suspension points over a directory chain          *)
(*   SpecManifest  the package.json check of detectFramework, applied to   *)
(*                 every manifest of a bounded family                      *)
(*   SpecExtract   extractJSExports (and extractClassMethods, which it     *)
(*                 calls) applied to every source of a bounded family      *)
(***************************************************************************)
EXTENDS Integers, Sequences, FiniteSets, TLC

VARIABLES
    filePath,    \* the argument of analyzeFile: [dir, ext]
    sourceOk,    \* whether the target file can be read
    fs,          \* the directory chain: directory path -> its content
    pc,          \* the suspension point analyzeFile / detectFramework is at
    searchDirs,  \* detectFramework's searchDirs
    di,          \* index in searchDirs of the directory being inspected
    ci,          \* index in ConfigProbes of the config file being probed
    reads,       \* every filesystem call made so far, in order
    located,     \* the value detectFramework returned
    result,      \* the record analyzeFile returned
    error,       \* the error analyzeFile threw
    pkgIn,       \* SpecManifest: the manifest under test
    pkgOut,      \* SpecManifest: what the manifest check produced
    input,       \* SpecExtract: the declarations the source is rendered from
    source,      \* SpecExtract: the source text
    exports      \* SpecExtract: what extractJSExports returned

vars == <<filePath, sourceOk, fs, pc, searchDirs, di, ci, reads, located, result,
          error, pkgIn, pkgOut, input, source, exports>>

fsVars == <<filePath, sourceOk, fs, pc, searchDirs, di, ci, reads, located, result, error>>
manifestVars == <<pkgIn, pkgOut>>
extractVars == <<input, source, exports>>

\* JavaScript's null (and undefined where the code does not tell them apart).
Null == "null"

(***************************************************************************)
(* Strings                                                                 *)
(***************************************************************************)

UpperCase == <<"A","B","C","D","E","F","G","H","I","J","K","L","M","N","O","P","Q","R","S","T","U","V","W","X","Y","Z">>
LowerCase == <<"a","b","c","d","e","f","g","h","i","j","k","l","m","n","o","p","q","r","s","t","u","v","w","x","y","z">>

ToLowerChar(c) ==
    IF \E k \in DOMAIN UpperCase : UpperCase[k] = c
    THEN LowerCase[CHOOSE k \in DOMAIN UpperCase : UpperCase[k] = c]
    ELSE c

\* String.prototype.toLowerCase
ToLowerCase(s) == [k \in 1..Len(s) |-> ToLowerChar(s[k])]

\* Whether lit occurs in s starting at position i.
StartsWithAt(s, i, lit) ==
    /\ i >= 1
    /\ i + Len(lit) - 1 <= Len(s)
    /\ \A k \in 1..Len(lit) : s[i + k - 1] = lit[k]

\* String.prototype.includes
Includes(s, sub) == \E i \in 1..(Len(s) - Len(sub) + 1) : StartsWithAt(s, i, sub)

\* String.prototype.slice(from, to) for 0 <= from <= to, in 1-based positions:
\* the characters at positions from .. to - 1, cut at the end of s.
Slice(s, from, to) ==
    LET hi == IF to - 1 > Len(s) THEN Len(s) ELSE to - 1
    IN  IF from > hi THEN <<>> ELSE SubSeq(s, from, hi)

RECURSIVE Flatten(_)
Flatten(ss) == IF ss = <<>> THEN <<>> ELSE Head(ss) \o Flatten(Tail(ss))

(***************************************************************************)
(* detectLanguage                                                          *)
(***************************************************************************)

LANGUAGE_MAP ==
    [e \in {<<".","j","s">>, <<".","j","s","x">>, <<".","m","j","s">>, <<".","c","j","s">>, <<".","t","s">>, <<".","t","s","x">>, <<".","m","t","s">>, <<".","p","y">>} |->
        IF e \in {<<".","j","s">>, <<".","j","s","x">>, <<".","m","j","s">>, <<".","c","j","s">>} THEN "javascript"
        ELSE IF e \in {<<".","t","s">>, <<".","t","s","x">>, <<".","m","t","s">>} THEN "typescript"
        ELSE "python"]

\* path.extname and path.dirname of the argument: the path is kept split.
extname(path) == path.ext
dirnameOfFile(path) == path.dir

detectLanguage(path) ==
    LET ext == ToLowerCase(extname(path))
    IN  IF ext \in DOMAIN LANGUAGE_MAP THEN LANGUAGE_MAP[ext] ELSE Null

(***************************************************************************)
(* package.json: JSON.parse, object spread, JSON.stringify                 *)
(***************************************************************************)

\* A JSON object is the sequence of its [key, val] entries in insertion
\* order, keys unique; every val is a string.  A section of the manifest is
\* [present, entries]: present is FALSE when the manifest has no such key.

HasKey(obj, key) == \E k \in DOMAIN obj : obj[k].key = key

\* One property copied by a spread: an existing key keeps its place and
\* takes the new value, a new key goes last.
Put(obj, e) ==
    IF HasKey(obj, e.key)
    THEN [k \in DOMAIN obj |-> IF obj[k].key = e.key THEN e ELSE obj[k]]
    ELSE Append(obj, e)

RECURSIVE SpreadInto(_, _)
SpreadInto(acc, obj) ==
    IF obj = <<>> THEN acc ELSE SpreadInto(Put(acc, Head(obj)), Tail(obj))

\* pkg.section || {}
OrEmpty(section) == IF section.present THEN section.entries ELSE <<>>

EscapeChar(c) ==
    IF c = "\"" THEN <<"\\", "\"">>
    ELSE IF c = "\\" THEN <<"\\", "\\">>
    ELSE <<c>>

Quote(s) == <<"\"">> \o Flatten([k \in 1..Len(s) |-> EscapeChar(s[k])]) \o <<"\"">>

RECURSIVE JoinEntries(_)
JoinEntries(obj) ==
    IF obj = <<>> THEN <<>>
    ELSE Quote(Head(obj).key) \o <<":">> \o Quote(Head(obj).val)
         \o (IF Tail(obj) = <<>> THEN <<>> ELSE <<",">> \o JoinEntries(Tail(obj)))

JSONStringify(obj) == <<"{">> \o JoinEntries(obj) \o <<"}">>

NoSection == [present |-> FALSE, entries |-> <<>>]
Section(entries) == [present |-> TRUE, entries |-> entries]
Entry(key, val) == [key |-> key, val |-> val]

\* What readFile + JSON.parse make of package.json.  kind is "absent" (the
\* read fails), "garbage" (JSON.parse throws), "null" (the text parses to
\* null, so reading pkg.dependencies throws) or "object".
Manifest(kind, deps, devDeps, scripts) ==
    [kind |-> kind, dependencies |-> deps, devDependencies |-> devDeps, scripts |-> scripts]
NoManifest == Manifest("absent", NoSection, NoSection, NoSection)

allDepsOf(pkg) ==
    SpreadInto(SpreadInto(SpreadInto(<<>>, OrEmpty(pkg.dependencies)),
                          OrEmpty(pkg.devDependencies)),
               OrEmpty(pkg.scripts))

\* The first try block of the loop body: the framework it returns, or Null
\* when it returns nothing (also when the catch swallows an exception).
ManifestFramework(file) ==
    IF file.kind # "object" THEN Null
    ELSE LET depsStr == ToLowerCase(JSONStringify(allDepsOf(file)))
         IN  IF Includes(depsStr, <<"v","i","t","e","s","t">>) THEN "vitest"
             ELSE IF Includes(depsStr, <<"j","e","s","t">>) THEN "jest"
             ELSE IF Includes(depsStr, <<"m","o","c","h","a">>) THEN "mocha"
             ELSE Null

\* pyproject.toml is [exists, text].  The second try block of the loop body.
PyFile(text) == [exists |-> TRUE, text |-> text]
NoPyFile == [exists |-> FALSE, text |-> <<>>]

PyprojectFramework(file) ==
    IF ~file.exists THEN Null
    ELSE IF Includes(file.text, <<"[","t","o","o","l",".","p","y","t","e","s","t">>) \/ Includes(file.text, <<"p","y","t","e","s","t">>)
         THEN "pytest"
         ELSE Null

\* Object.entries(FRAMEWORK_CONFIG_FILES), flattened in iteration order.
Probe(framework, file) == [framework |-> framework, file |-> file]
ConfigProbes == <<
    Probe("jest", "jest.config.js"), Probe("jest", "jest.config.ts"),
    Probe("jest", "jest.config.mjs"), Probe("jest", "jest.config.cjs"),
    Probe("vitest", "vitest.config.js"), Probe("vitest", "vitest.config.ts"),
    Probe("vitest", "vitest.config.mts"),
    Probe("mocha", ".mocharc.js"), Probe("mocha", ".mocharc.cjs"),
    Probe("mocha", ".mocharc.yaml"), Probe("mocha", ".mocharc.yml"),
    Probe("mocha", ".mocharc.json"),
    Probe("pytest", "pytest.ini"), Probe("pytest", "conftest.py") >>

(***************************************************************************)
(* Paths and the directory chain                                           *)
(***************************************************************************)

\* A directory path is the sequence of its components below the root; the
\* root is <<>>.  path.dirname of the root is the root.
dirname(p) == IF Len(p) = 0 THEN p ELSE SubSeq(p, 1, Len(p) - 1)

\* The number of parents detectFramework adds to the file's directory.
MaxParents == 4

\* Lines 34-43: the file's directory, then its parents.
RECURSIVE WalkUp(_, _, _)
WalkUp(dirs, current, i) ==
    IF i >= MaxParents THEN dirs
    ELSE LET parent == dirname(current)
         IN  IF parent = current THEN dirs
             ELSE WalkUp(Append(dirs, parent), parent, i + 1)

BuildSearchDirs_NoRootStop(dir) ==
    LET RECURSIVE Up(_, _, _)
        Up(dirs, current, i) ==
            IF i >= MaxParents THEN dirs
            ELSE Up(Append(dirs, dirname(current)), dirname(current), i + 1)
    IN  Up(<<dir>>, dir, 0)

BuildSearchDirs(dir) == WalkUp(<<dir>>, dir, 0)

\* Bounds of the directory chain: its depth below the root, and the number
\* of its directories that hold any of the files detectFramework looks for.
MaxDepth == 5
MaxSignalDirs == 2

Dir(k) == [i \in 1..k |-> i]
AllDirs == {Dir(k) : k \in 0..MaxDepth}

\* A directory's content: its package.json, its pyproject.toml and the
\* config files (of ConfigProbes) that exist in it.
DirContent(pkg, py, cfg) == [pkg |-> pkg, py |-> py, cfg |-> cfg]
EmptyDir == DirContent(NoManifest, NoPyFile, {})

PkgMocha ==
    Manifest("object", NoSection,
             Section(<<Entry(<<"m","o","c","h","a">>, <<"^","1","0">>)>>), NoSection)
PkgGarbage == Manifest("garbage", NoSection, NoSection, NoSection)
PkgNull == Manifest("null", NoSection, NoSection, NoSection)

\* What a directory that is not empty holds: a manifest naming a runner; or
\* an unparseable manifest, a pyproject.toml without pytest and two config
\* files; or a manifest holding null, a pytest pyproject.toml and a config
\* file.
SignalContents == {
    DirContent(PkgMocha, NoPyFile, {}),
    DirContent(PkgGarbage, PyFile(<<"[","t","o","o","l",".","b","l","a","c","k","]">>), {"vitest.config.ts", "pytest.ini"}),
    DirContent(PkgNull, PyFile(<<"[","t","o","o","l",".","p","y","t","e","s","t",".","i","n","i","_","o","p","t","i","o","n","s","]">>), {"jest.config.js"}) }

FileSystems ==
    UNION { { [d \in AllDirs |-> IF d \in S THEN g[d] ELSE EmptyDir] :
              g \in [S -> SignalContents] } :
            S \in {T \in SUBSET AllDirs : Cardinality(T) <= MaxSignalDirs} }

Exts == {<<".","T","S","X">>, <<".","p","y">>, <<".","r","b">>}

NoResult == [present |-> FALSE, language |-> Null, framework |-> Null]
NoError == [kind |-> "none", ext |-> <<>>]

\* The filesystem calls, as logged in reads.
SourceRead == [op |-> "readFile", dir |-> dirnameOfFile(filePath), file |-> "<source>"]
FsCall(op, dir, file) == [op |-> op, dir |-> dir, file |-> file]

(***************************************************************************)
(* analyzeFile and detectFramework, one action per suspension point        *)
(***************************************************************************)

FsIdle ==
    /\ filePath = [dir |-> <<>>, ext |-> <<>>]
    /\ sourceOk = FALSE
    /\ fs = <<>>
    /\ pc = "off"
    /\ searchDirs = <<>>
    /\ di = 0
    /\ ci = 0
    /\ reads = <<>>
    /\ located = Null
    /\ result = NoResult
    /\ error = NoError

ManifestIdle == pkgIn = NoManifest /\ pkgOut = "idle"
ExtractIdle == input = <<>> /\ source = <<>> /\ exports = <<>>

Init ==
    /\ filePath \in [dir : AllDirs, ext : Exts]
    /\ sourceOk \in BOOLEAN
    /\ fs \in FileSystems
    /\ pc = "start"
    /\ searchDirs = <<>>
    /\ di = 0
    /\ ci = 0
    /\ reads = <<>>
    /\ located = Null
    /\ result = NoResult
    /\ error = NoError
    /\ ManifestIdle
    /\ ExtractIdle

\* Lines 243-246, read before the language is known.
AnalyzeStart_ReadFirst ==
    /\ pc = "start"
    /\ reads' = Append(reads, SourceRead)
    /\ IF detectLanguage(filePath) = Null
       THEN /\ pc' = "failed"
            /\ error' = [kind |-> "UnsupportedFileType", ext |-> extname(filePath)]
       ELSE /\ pc' = "readSource"
            /\ error' = error
    /\ UNCHANGED <<filePath, sourceOk, fs, searchDirs, di, ci, located, result>>
    /\ UNCHANGED <<manifestVars, extractVars>>

\* Lines 243-246: classify, throw for an unrecognized extension.
AnalyzeStart ==
    /\ pc = "start"
    /\ IF detectLanguage(filePath) = Null
       THEN /\ pc' = "failed"
            /\ error' = [kind |-> "UnsupportedFileType", ext |-> extname(filePath)]
       ELSE /\ pc' = "readSource"
            /\ error' = error
    /\ UNCHANGED <<filePath, sourceOk, fs, searchDirs, di, ci, reads, located, result>>
    /\ UNCHANGED <<manifestVars, extractVars>>

\* Line 248, then detectFramework up to its first await (lines 34-47).
ReadSource ==
    /\ pc = "readSource"
    /\ reads' = Append(reads, SourceRead)
    /\ IF sourceOk
       THEN /\ searchDirs' = BuildSearchDirs(dirnameOfFile(filePath))
            /\ di' = 1
            /\ pc' = "pkg"
            /\ error' = error
       ELSE /\ pc' = "failed"
            /\ error' = [kind |-> "SourceUnreadable", ext |-> <<>>]
            /\ UNCHANGED <<searchDirs, di>>
    /\ UNCHANGED <<filePath, sourceOk, fs, ci, located, result>>
    /\ UNCHANGED <<manifestVars, extractVars>>

\* Lines 46-63, with a manifest that cannot be used ending the search.
ReadPackageJson_AbortOnError ==
    /\ pc = "pkg"
    /\ reads' = Append(reads, FsCall("readFile", searchDirs[di], "package.json"))
    /\ LET file == fs[searchDirs[di]].pkg
           found == ManifestFramework(file)
       IN  IF found # Null \/ file.kind \in {"garbage", "null"}
           THEN located' = found /\ pc' = "located"
           ELSE located' = located /\ pc' = "pyproject"
    /\ UNCHANGED <<filePath, sourceOk, fs, searchDirs, di, ci, result, error>>
    /\ UNCHANGED <<manifestVars, extractVars>>

\* Lines 46-63: package.json of the current directory.
ReadPackageJson ==
    /\ pc = "pkg"
    /\ reads' = Append(reads, FsCall("readFile", searchDirs[di], "package.json"))
    /\ LET found == ManifestFramework(fs[searchDirs[di]].pkg)
       IN  IF found # Null
           THEN located' = found /\ pc' = "located"
           ELSE located' = located /\ pc' = "pyproject"
    /\ UNCHANGED <<filePath, sourceOk, fs, searchDirs, di, ci, result, error>>
    /\ UNCHANGED <<manifestVars, extractVars>>

\* Lines 65-71: pyproject.toml of the current directory.
ReadPyproject ==
    /\ pc = "pyproject"
    /\ reads' = Append(reads, FsCall("readFile", searchDirs[di], "pyproject.toml"))
    /\ LET found == PyprojectFramework(fs[searchDirs[di]].py)
       IN  IF found # Null
           THEN located' = found /\ pc' = "located" /\ ci' = ci
           ELSE located' = located /\ pc' = "config" /\ ci' = 1
    /\ UNCHANGED <<filePath, sourceOk, fs, searchDirs, di, result, error>>
    /\ UNCHANGED <<manifestVars, extractVars>>

\* Lines 73-85: one access() of the config loop; after the last config file
\* of the last directory detectFramework returns null.
AccessConfig ==
    /\ pc = "config"
    /\ reads' = Append(reads, FsCall("access", searchDirs[di], ConfigProbes[ci].file))
    /\ IF ConfigProbes[ci].file \in fs[searchDirs[di]].cfg
       THEN /\ located' = ConfigProbes[ci].framework
            /\ pc' = "located"
            /\ UNCHANGED <<di, ci>>
       ELSE IF ci < Len(ConfigProbes)
       THEN /\ ci' = ci + 1
            /\ UNCHANGED <<located, pc, di>>
       ELSE IF di < Len(searchDirs)
       THEN /\ di' = di + 1
            /\ pc' = "pkg"
            /\ UNCHANGED <<located, ci>>
       ELSE /\ located' = Null
            /\ pc' = "located"
            /\ UNCHANGED <<di, ci>>
    /\ UNCHANGED <<filePath, sourceOk, fs, searchDirs, result, error>>
    /\ UNCHANGED <<manifestVars, extractVars>>

DefaultFramework_AlwaysJest(language) == "jest"

\* Line 265: the fallback when detectFramework found nothing.
DefaultFramework(language) == IF language = "python" THEN "pytest" ELSE "jest"

\* Lines 262-272: the record, with the fields the framework claims read.
AnalyzeFinish ==
    /\ pc = "located"
    /\ result' = [present |-> TRUE,
                  language |-> detectLanguage(filePath),
                  framework |-> IF located # Null THEN located
                                ELSE DefaultFramework(detectLanguage(filePath))]
    /\ pc' = "done"
    /\ UNCHANGED <<filePath, sourceOk, fs, searchDirs, di, ci, reads, located, error>>
    /\ UNCHANGED <<manifestVars, extractVars>>

Next ==
    \/ AnalyzeStart
    \/ ReadSource
    \/ ReadPackageJson
    \/ ReadPyproject
    \/ AccessConfig
    \/ AnalyzeFinish

Spec == Init /\ [][Next]_vars

(***************************************************************************)
(* Properties of analyzeFile and detectFramework (Spec)                    *)
(***************************************************************************)

\* The calls detectFramework has made: reads without the source read.
Probes == IF reads = <<>> THEN <<>> ELSE Tail(reads)
LastProbe == Probes[Len(Probes)]
Returned == pc \in {"located", "done"}

\* The file's directory and its ancestors, nearest first, down to the root.
RECURSIVE Ancestors(_)
Ancestors(dir) == IF Len(dir) = 0 THEN <<dir>> ELSE <<dir>> \o Ancestors(dirname(dir))

FirstN(s, n) == IF Len(s) <= n THEN s ELSE SubSeq(s, 1, n)
Range(s) == {s[k] : k \in DOMAIN s}
IsPrefix(s, t) == Len(s) <= Len(t) /\ \A k \in 1..Len(s) : s[k] = t[k]

\* The config filenames in the order the specification lists them.
ListedConfigFiles == <<
    [framework |-> "jest", file |-> "jest.config.js"],
    [framework |-> "jest", file |-> "jest.config.ts"],
    [framework |-> "jest", file |-> "jest.config.mjs"],
    [framework |-> "jest", file |-> "jest.config.cjs"],
    [framework |-> "vitest", file |-> "vitest.config.js"],
    [framework |-> "vitest", file |-> "vitest.config.ts"],
    [framework |-> "vitest", file |-> "vitest.config.mts"],
    [framework |-> "mocha", file |-> ".mocharc.js"],
    [framework |-> "mocha", file |-> ".mocharc.cjs"],
    [framework |-> "mocha", file |-> ".mocharc.yaml"],
    [framework |-> "mocha", file |-> ".mocharc.yml"],
    [framework |-> "mocha", file |-> ".mocharc.json"],
    [framework |-> "pytest", file |-> "pytest.ini"],
    [framework |-> "pytest", file |-> "conftest.py"] >>

\* The checks of one directory, and of a list of directories, in the order
\* the claim gives them.
ChecksOf(dir) ==
    <<FsCall("readFile", dir, "package.json"), FsCall("readFile", dir, "pyproject.toml")>>
    \o [k \in DOMAIN ListedConfigFiles |-> FsCall("access", dir, ListedConfigFiles[k].file)]

RECURSIVE ChecksOfAll(_)
ChecksOfAll(dirs) ==
    IF dirs = <<>> THEN <<>> ELSE ChecksOf(Head(dirs)) \o ChecksOfAll(Tail(dirs))

\* What one check yields on the filesystem: a framework or Null.
Yield(call) ==
    IF call.file = "package.json" THEN ManifestFramework(fs[call.dir].pkg)
    ELSE IF call.file = "pyproject.toml" THEN PyprojectFramework(fs[call.dir].py)
    ELSE IF call.file \in fs[call.dir].cfg
         THEN ListedConfigFiles[CHOOSE k \in DOMAIN ListedConfigFiles :
                                    ListedConfigFiles[k].file = call.file].framework
         ELSE Null

Recognized == {<<".","j","s">>, <<".","j","s","x">>, <<".","m","j","s">>, <<".","c","j","s">>, <<".","t","s">>, <<".","t","s","x">>, <<".","m","t","s">>, <<".","p","y">>}
IsPythonFile == ToLowerCase(filePath.ext) = <<".","p","y">>

\* C1: analyzeFile on a path whose extension is not recognized fails with
\* UnsupportedFileType naming the extension, makes no filesystem call at all
\* and produces no record.
C1_UnsupportedFailsWithoutRead ==
    (ToLowerCase(filePath.ext) \notin Recognized /\ pc # "start")
        => /\ pc = "failed"
           /\ error = [kind |-> "UnsupportedFileType", ext |-> filePath.ext]
           /\ reads = <<>>
           /\ result = NoResult

\* C1 witness: the failure, in a tree that has a manifest to read.
C1_Witness ==
    /\ pc = "failed"
    /\ error.kind = "UnsupportedFileType"
    /\ filePath.ext = <<".","r","b">>
    /\ fs[filePath.dir].pkg = PkgMocha

\* C3: the checks are made nearest directory first and, in a directory, as
\* package.json, pyproject.toml, then the config files in the listed order;
\* every check before the last one made yielded nothing; detectFramework
\* returns what the first yielding check yields; and it returns null only
\* after the last config file of a directory, so a manifest that cannot be
\* read or parsed never ends the search.
C3_NearestFirstInOrder ==
    /\ IsPrefix(Probes, ChecksOfAll(Ancestors(filePath.dir)))
    /\ \A k \in 1..(Len(Probes) - 1) : Yield(Probes[k]) = Null
    /\ (Probes # <<>> /\ Yield(LastProbe) # Null)
           => Returned /\ located = Yield(LastProbe)
    /\ (Returned /\ located = Null)
           => /\ Yield(LastProbe) = Null
              /\ LastProbe.file = "conftest.py"
    /\ (pc \in {"pyproject", "config"})
           => LastProbe.dir = searchDirs[di]

\* C3 witness: the nearer directory was empty, the farther one has an
\* unparseable manifest, and the framework came from its config file.
C3_Witness ==
    /\ pc = "done"
    /\ located = "vitest"
    /\ LastProbe.dir # filePath.dir
    /\ fs[LastProbe.dir].pkg = PkgGarbage
    /\ fs[filePath.dir] = EmptyDir

\* The directories inspected so far.
Inspected == {Probes[k].dir : k \in DOMAIN Probes}
\* The file's directory and its 4 nearest ancestors.
InBound == Range(FirstN(Ancestors(filePath.dir), 5))

\* C4: detectFramework inspects at most 5 directories, all among the file's
\* directory and its 4 nearest ancestors, makes no check twice and so at
\* most 5 times the checks of one directory, always has a directory and a
\* config file to go on with until it returns, and returns null exactly when
\* none of those directories yields a framework, whatever a directory above
\* them holds.
C4_BoundedWalk ==
    /\ Cardinality(Inspected) <= 5
    /\ Inspected \subseteq InBound
    /\ Cardinality(Range(Probes)) = Len(Probes)
    /\ Len(Probes) <= 5 * Len(ChecksOf(filePath.dir))
    /\ pc \in {"pkg", "pyproject", "config"} => di \in DOMAIN searchDirs
    /\ pc = "config" => ci \in DOMAIN ConfigProbes
    /\ Returned => (located = Null <=> \A c \in Range(ChecksOfAll(FirstN(Ancestors(filePath.dir), 5))) :
                                           Yield(c) = Null)
    /\ (Returned /\ located = Null) => Inspected = InBound

\* C4 witness: null returned from the deepest directory although the root,
\* which is above the bound, has a manifest naming a runner.
C4_Witness ==
    /\ pc = "done"
    /\ located = Null
    /\ Len(filePath.dir) = 5
    /\ Cardinality(Inspected) = 5
    /\ fs[<<>>].pkg = PkgMocha

\* C5: the record's framework is detectFramework's result when that is a
\* framework, and otherwise pytest for a Python file and jest for a
\* JavaScript or TypeScript file; it is never null.
C5_FrameworkOrDefault ==
    pc = "done"
        => /\ result.present
           /\ result.framework # Null
           /\ located # Null => result.framework = located
           /\ located = Null => result.framework = (IF IsPythonFile THEN "pytest" ELSE "jest")

\* C5 witness: a Python file for which nothing was found.
C5_Witness ==
    /\ pc = "done"
    /\ located = Null
    /\ IsPythonFile
    /\ result.framework = "pytest"

\* C6: the record's framework is one the README lists for the file's
\* language: pytest for Python, jest, vitest or mocha for JavaScript and
\* TypeScript.
C6_FrameworkFitsLanguage ==
    pc = "done"
        => IF IsPythonFile
           THEN result.framework = "pytest"
           ELSE result.framework \in {"jest", "vitest", "mocha"}

(***************************************************************************)
(* The package.json check on its own (SpecManifest)                        *)
(***************************************************************************)

\* The number of entries of one section of a manifest under test.
MaxEntries == 1

SectionKeys == {<<"t","e","s","t">>, <<"j","e","s","t">>, <<"l","i","n","t">>}
SectionVals == {<<"n","p","m",":","v","i","t","e","s","t","@","1">>, <<"J","e","s","t">>, <<"m","o","c","h","a">>, <<"^","1">>}

RECURSIVE EntrySeqs(_)
EntrySeqs(n) ==
    IF n = 0 THEN {<<>>}
    ELSE EntrySeqs(n - 1) \cup
         { Append(s, Entry(k, v)) :
             s \in {t \in EntrySeqs(n - 1) : Len(t) = n - 1},
             k \in SectionKeys, v \in SectionVals }

Sections ==
    {NoSection} \cup
    { Section(s) : s \in {t \in EntrySeqs(MaxEntries) :
                            \A i, j \in DOMAIN t : i # j => t[i].key # t[j].key} }

Manifests ==
    {NoManifest, PkgGarbage, PkgNull} \cup
    { Manifest("object", d, v, s) : d \in Sections, v \in Sections, s \in Sections }

InitManifest ==
    /\ pkgIn \in Manifests
    /\ pkgOut = "idle"
    /\ FsIdle
    /\ ExtractIdle

\* Lines 46-63 applied to pkgIn.
CheckManifest ==
    /\ pkgOut = "idle"
    /\ pkgOut' = ManifestFramework(pkgIn)
    /\ UNCHANGED <<pkgIn, fsVars, extractVars>>

NextManifest == CheckManifest

SpecManifest == InitManifest /\ [][NextManifest]_vars

\* Whether text occurs, in any letter case, in a key or a value of section.
OccursIn(text, section) ==
    \E k \in DOMAIN section.entries :
        \/ Includes(ToLowerCase(section.entries[k].key), text)
        \/ Includes(ToLowerCase(section.entries[k].val), text)

Mentions(text) ==
    \/ OccursIn(text, pkgIn.dependencies)
    \/ OccursIn(text, pkgIn.devDependencies)
    \/ OccursIn(text, pkgIn.scripts)

\* C2: for a readable, parseable manifest the result is vitest when vitest
\* occurs in dependencies, devDependencies or scripts, else jest when jest
\* occurs in one of them, else mocha when mocha occurs in one of them.
C2_RunnerPriority ==
    (pkgOut # "idle" /\ pkgIn.kind = "object")
        => /\ Mentions(<<"v","i","t","e","s","t">>) => pkgOut = "vitest"
           /\ (~Mentions(<<"v","i","t","e","s","t">>) /\ Mentions(<<"j","e","s","t">>)) => pkgOut = "jest"
           /\ (~Mentions(<<"v","i","t","e","s","t">>) /\ ~Mentions(<<"j","e","s","t">>) /\ Mentions(<<"m","o","c","h","a">>))
                  => pkgOut = "mocha"

(***************************************************************************)
(* Regular expressions of the extractors                                   *)
(*                                                                         *)
(* Each pattern is matched as the regex engine matches it: at one start    *)
(* position by XxxAt, which returns the match [found, index, end, g1, g2]  *)
(* (end is the position after the match, g1 and g2 the capture groups),    *)
(* and over the whole text by AllMatches, the loop                         *)
(* while ((match = regex.exec(text)) !== null) of a /g regex.              *)
(***************************************************************************)

\* The element of a set of one element: Only({ e(x) : x \in {v} }) is e(v),
\* with v computed once.
Only(S) == CHOOSE x \in S : TRUE

WsChars == {" ", "\n", "\t", "\r"}
WordChars ==
    {LowerCase[k] : k \in DOMAIN LowerCase} \cup {UpperCase[k] : k \in DOMAIN UpperCase}
    \cup {"0", "1", "2", "3", "4", "5", "6", "7", "8", "9", "_"}

\* The position after \s* (SkipWs) and after \w* (SkipWord) matched at i.
RECURSIVE SkipWs(_, _)
SkipWs(s, i) == IF i <= Len(s) /\ s[i] \in WsChars THEN SkipWs(s, i + 1) ELSE i

RECURSIVE SkipWord(_, _)
SkipWord(s, i) == IF i <= Len(s) /\ s[i] \in WordChars THEN SkipWord(s, i + 1) ELSE i

CharAt(s, i, c) == i <= Len(s) /\ s[i] = c

\* String.prototype.indexOf(c, i): the first position >= i holding c, 0 if none.
IndexOf(s, c, i) ==
    IF \E k \in i..Len(s) : s[k] = c
    THEN CHOOSE k \in i..Len(s) : s[k] = c /\ \A j \in i..(k - 1) : s[j] # c
    ELSE 0

\* String.prototype.trim
RECURSIVE TrimEnd(_)
TrimEnd(s) ==
    IF s # <<>> /\ s[Len(s)] \in WsChars THEN TrimEnd(SubSeq(s, 1, Len(s) - 1)) ELSE s
Trim(s) == TrimEnd(SubSeq(s, SkipWs(s, 1), Len(s)))

NoMatch == [found |-> FALSE, index |-> 0, end |-> 0, g1 |-> <<>>, g2 |-> <<>>]
Match(index, end, g1, g2) ==
    [found |-> TRUE, index |-> index, end |-> end, g1 |-> g1, g2 |-> g2]

\* (\w+)\s*\(([^)]*)\) at p, as part of a match starting at index.
NameAndParams(s, index, p) ==
    LET e == SkipWord(s, p)
        f == SkipWs(s, e)
        g == IndexOf(s, ")", f + 1)
    IN  IF e > p /\ CharAt(s, f, "(") /\ g # 0
        THEN Match(index, g + 1, SubSeq(s, p, e - 1), SubSeq(s, f + 1, g - 1))
        ELSE NoMatch

\* function\s+(\w+)\s*\(([^)]*)\) at p.
FunctionTail(s, index, p) ==
    LET q == p + Len(<<"f","u","n","c","t","i","o","n">>)
        r == SkipWs(s, q)
    IN  IF StartsWithAt(s, p, <<"f","u","n","c","t","i","o","n">>) /\ r > q
        THEN NameAndParams(s, index, r)
        ELSE NoMatch

\* (?:async\s+)? at p followed by Tail: the group is tried first, and
\* skipped when the match cannot be completed with it.
AfterAsyncWs(s, p) ==
    IF StartsWithAt(s, p, <<"a","s","y","n","c">>) /\ SkipWs(s, p + 5) > p + 5
    THEN SkipWs(s, p + 5)
    ELSE 0

\* /export\s+(?:async\s+)?function\s+(\w+)\s*\(([^)]*)\)/ at i.
NamedFuncAt(s, i) ==
    LET a == i + Len(<<"e","x","p","o","r","t">>)
        b == SkipWs(s, a)
        c == AfterAsyncWs(s, b)
        withAsync == IF c # 0 THEN FunctionTail(s, i, c) ELSE NoMatch
    IN  IF ~(StartsWithAt(s, i, <<"e","x","p","o","r","t">>) /\ b > a) THEN NoMatch
        ELSE IF withAsync.found THEN withAsync
        ELSE FunctionTail(s, i, b)

\* \(([^)]*)\)\s*=> at p; g1 is the name already matched.
ArrowTail(s, index, name, p) ==
    LET g == IndexOf(s, ")", p + 1)
        h == SkipWs(s, g + 1)
    IN  IF CharAt(s, p, "(") /\ g # 0 /\ StartsWithAt(s, h, <<"=",">">>)
        THEN Match(index, h + 2, name, SubSeq(s, p + 1, g - 1))
        ELSE NoMatch

\* /export\s+const\s+(\w+)\s*=\s*(?:async\s*)?\(([^)]*)\)\s*=>/ at i.
ArrowFuncAt(s, i) ==
    LET a == i + Len(<<"e","x","p","o","r","t">>)
        b == SkipWs(s, a)
        c == b + Len(<<"c","o","n","s","t">>)
        d == SkipWs(s, c)
        e == SkipWord(s, d)
        f == SkipWs(s, e)
        g == SkipWs(s, f + 1)
        name == SubSeq(s, d, e - 1)
        withAsync == IF StartsWithAt(s, g, <<"a","s","y","n","c">>)
                     THEN ArrowTail(s, i, name, SkipWs(s, g + 5))
                     ELSE NoMatch
    IN  IF ~(/\ StartsWithAt(s, i, <<"e","x","p","o","r","t">>) /\ b > a
             /\ StartsWithAt(s, b, <<"c","o","n","s","t">>) /\ d > c
             /\ e > d /\ CharAt(s, f, "=")) THEN NoMatch
        ELSE IF withAsync.found THEN withAsync
        ELSE ArrowTail(s, i, name, g)

\* class\s+(\w+)(?:\s+extends\s+(\w+))? at p; g2 is <<>> without extends.
ClassTail(s, index, p) ==
    LET q == p + Len(<<"c","l","a","s","s">>)
        r == SkipWs(s, q)
        e == SkipWord(s, r)
        x == SkipWs(s, e)
        y == x + Len(<<"e","x","t","e","n","d","s">>)
        z == SkipWs(s, y)
        w == SkipWord(s, z)
    IN  IF ~(StartsWithAt(s, p, <<"c","l","a","s","s">>) /\ r > q /\ e > r) THEN NoMatch
        ELSE IF x > e /\ StartsWithAt(s, x, <<"e","x","t","e","n","d","s">>) /\ z > y /\ w > z
        THEN Match(index, w, SubSeq(s, r, e - 1), SubSeq(s, z, w - 1))
        ELSE Match(index, e, SubSeq(s, r, e - 1), <<>>)

\* /export\s+(?:default\s+)?class\s+(\w+)(?:\s+extends\s+(\w+))?/ at i.
ClassAt(s, i) ==
    LET a == i + Len(<<"e","x","p","o","r","t">>)
        b == SkipWs(s, a)
        c == b + Len(<<"d","e","f","a","u","l","t">>)
        d == SkipWs(s, c)
        withDefault == IF StartsWithAt(s, b, <<"d","e","f","a","u","l","t">>) /\ d > c
                       THEN ClassTail(s, i, d)
                       ELSE NoMatch
    IN  IF ~(StartsWithAt(s, i, <<"e","x","p","o","r","t">>) /\ b > a) THEN NoMatch
        ELSE IF withDefault.found THEN withDefault
        ELSE ClassTail(s, i, b)

\* function\s*(\w*)\s*\(([^)]*)\) at p.
DefaultFunctionTail(s, index, p) ==
    LET q == p + Len(<<"f","u","n","c","t","i","o","n">>)
        r == SkipWs(s, q)
        e == SkipWord(s, r)
        f == SkipWs(s, e)
        g == IndexOf(s, ")", f + 1)
    IN  IF StartsWithAt(s, p, <<"f","u","n","c","t","i","o","n">>) /\ CharAt(s, f, "(") /\ g # 0
        THEN Match(index, g + 1, SubSeq(s, r, e - 1), SubSeq(s, f + 1, g - 1))
        ELSE NoMatch

\* /export\s+default\s+(?:async\s+)?function\s*(\w*)\s*\(([^)]*)\)/ at i.
DefaultFuncAt(s, i) ==
    LET a == i + Len(<<"e","x","p","o","r","t">>)
        b == SkipWs(s, a)
        c == b + Len(<<"d","e","f","a","u","l","t">>)
        d == SkipWs(s, c)
        e == AfterAsyncWs(s, d)
        withAsync == IF e # 0 THEN DefaultFunctionTail(s, i, e) ELSE NoMatch
    IN  IF ~(/\ StartsWithAt(s, i, <<"e","x","p","o","r","t">>) /\ b > a
             /\ StartsWithAt(s, b, <<"d","e","f","a","u","l","t">>) /\ d > c) THEN NoMatch
        ELSE IF withAsync.found THEN withAsync
        ELSE DefaultFunctionTail(s, i, d)

\* (\w+)\s*\(([^)]*)\)\s*(?::\s*\w+)?\s*\{ at p.
MethodCore(s, index, p) ==
    LET e == SkipWord(s, p)
        f == SkipWs(s, e)
        g == IndexOf(s, ")", f + 1)
        h == SkipWs(s, g + 1)
        t == SkipWs(s, h + 1)
        u == SkipWord(s, t)
        v == SkipWs(s, u)
    IN  IF ~(e > p /\ CharAt(s, f, "(") /\ g # 0) THEN NoMatch
        ELSE IF CharAt(s, h, ":") /\ u > t /\ CharAt(s, v, "{")
        THEN Match(index, v + 1, SubSeq(s, p, e - 1), SubSeq(s, f + 1, g - 1))
        ELSE IF CharAt(s, h, "{")
        THEN Match(index, h + 1, SubSeq(s, p, e - 1), SubSeq(s, f + 1, g - 1))
        ELSE NoMatch

Modifiers == <<<<"a","s","y","n","c">>, <<"s","t","a","t","i","c">>, <<"g","e","t">>, <<"s","e","t">>, <<"p","u","b","l","i","c">>, <<"p","r","i","v","a","t","e">>, <<"p","r","o","t","e","c","t","e","d">>>>

\* The position after (?:async|static|...)\s+ matched at p, 0 if it does not match.
AfterModifier(s, p) ==
    IF \E k \in DOMAIN Modifiers :
           StartsWithAt(s, p, Modifiers[k]) /\ SkipWs(s, p + Len(Modifiers[k])) > p + Len(Modifiers[k])
    THEN LET k == CHOOSE k \in DOMAIN Modifiers :
                      /\ StartsWithAt(s, p, Modifiers[k])
                      /\ SkipWs(s, p + Len(Modifiers[k])) > p + Len(Modifiers[k])
         IN  SkipWs(s, p + Len(Modifiers[k]))
    ELSE 0

\* (?:(?:async|static|get|set|public|private|protected)\s+)* then the rest,
\* at p: one more modifier is tried first, and given back when the rest
\* does not match after it.
RECURSIVE MethodFrom(_, _, _)
MethodFrom(s, index, p) ==
    LET a == AfterModifier(s, p)
        more == IF a # 0 THEN MethodFrom(s, index, a) ELSE NoMatch
    IN  IF more.found THEN more ELSE MethodCore(s, index, p)

\* methodRegex at i.
MethodAt(s, i) == MethodFrom(s, i, i)

MatchAt(regex, s, i) ==
    CASE regex = "namedFuncRegex" -> NamedFuncAt(s, i)
      [] regex = "arrowFuncRegex" -> ArrowFuncAt(s, i)
      [] regex = "classRegex" -> ClassAt(s, i)
      [] regex = "defaultFuncRegex" -> DefaultFuncAt(s, i)
      [] regex = "methodRegex" -> MethodAt(s, i)

\* regex.exec(s) with lastIndex = from: the leftmost match starting at or
\* after from, NoMatch when there is none.
Exec(regex, s, from) ==
    IF \E i \in from..Len(s) : MatchAt(regex, s, i).found
    THEN MatchAt(regex, s,
                 CHOOSE i \in from..Len(s) :
                     /\ MatchAt(regex, s, i).found
                     /\ \A j \in from..(i - 1) : ~MatchAt(regex, s, j).found)
    ELSE NoMatch

\* The matches of the loop while ((match = regex.exec(s)) !== null): each
\* exec starts at lastIndex, the end of the match before.
RECURSIVE AllMatches(_, _, _)
AllMatches(regex, s, from) ==
    Only({ IF m.found THEN <<m>> \o AllMatches(regex, s, m.end) ELSE <<>> :
           m \in {Exec(regex, s, from)} })

(***************************************************************************)
(* extractClassMethods and extractJSExports                                *)
(***************************************************************************)

\* Lines 101-111 without the depth-- of line 104.
ClassBodyEnd_NeverCloses(s, i, depth) == Len(s) + 1

\* Lines 96-111: classBodyEnd, as the position of the closing brace, or
\* Len(s) + 1 (source.length) when the depth never returns to zero.  The
\* loop is entered at i with the given depth; the characters that are no
\* brace, on which the loop body does nothing, are stepped over at once.
RECURSIVE ClassBodyEnd(_, _, _)
ClassBodyEnd(s, i, depth) ==
    IF ~\E k \in i..Len(s) : s[k] \in {"{", "}"} THEN Len(s) + 1
    ELSE Only({ IF s[b] = "{" THEN ClassBodyEnd(s, b + 1, depth + 1)
                ELSE IF depth - 1 = 0 THEN b
                ELSE ClassBodyEnd(s, b + 1, depth - 1) :
                b \in { k \in i..Len(s) :
                          s[k] \in {"{", "}"} /\ \A j \in i..(k - 1) : s[j] \notin {"{", "}"} } })

ControlKeywords_NoCatch == {<<"i","f">>, <<"f","o","r">>, <<"w","h","i","l","e">>, <<"s","w","i","t","c","h">>}

\* Line 118.
ControlKeywords == {<<"i","f">>, <<"f","o","r">>, <<"w","h","i","l","e">>, <<"s","w","i","t","c","h">>, <<"c","a","t","c","h">>}

Method(name, params) ==
    [name |-> name, signature |-> name \o <<"(">> \o Trim(params) \o <<")">>]

\* Lines 116-123: the matches that are not control keywords, as methods.
RECURSIVE MethodsOf(_)
MethodsOf(matches) ==
    IF matches = <<>> THEN <<>>
    ELSE IF Head(matches).g1 \in ControlKeywords THEN MethodsOf(Tail(matches))
    ELSE <<Method(Head(matches).g1, Head(matches).g2)>> \o MethodsOf(Tail(matches))

\* Lines 114-125 on the class body.
MethodsIn(classBody) ==
    Only({ MethodsOf(ms) : ms \in {AllMatches("methodRegex", classBody, 1)} })

\* Lines 91-126; classStart is a position.
extractClassMethods(s, classStart) ==
    LET braceStart == IndexOf(s, "{", classStart)
    IN  IF braceStart = 0 THEN <<>>
        ELSE MethodsIn(Slice(s, braceStart + 1, ClassBodyEnd(s, braceStart, 0)))

\* An entry of exports.  Every entry has every field: one the code leaves
\* out is FALSE (isDefault, and async of a class) or <<>> (extends, methods).
FunctionExport(name, params, async, isDefault) ==
    [type |-> "function", name |-> name,
     signature |-> name \o <<"(">> \o Trim(params) \o <<")">>,
     async |-> async, isDefault |-> isDefault, extends |-> <<>>, methods |-> <<>>]

ClassExport(name, base, methods) ==
    [type |-> "class", name |-> name,
     signature |-> <<"c","l","a","s","s"," ">> \o name \o (IF base # <<>> THEN <<" ","e","x","t","e","n","d","s"," ">> \o base ELSE <<>>),
     async |-> FALSE, isDefault |-> FALSE, extends |-> base, methods |-> methods]

\* Lines 136-143.
NamedFuncExports(s) ==
    Only({ [k \in DOMAIN ms |->
                   FunctionExport(ms[k].g1, ms[k].g2,
                                  Includes(Slice(s, ms[k].index, ms[k].index + 25), <<"a","s","y","n","c">>), FALSE)] :
           ms \in {AllMatches("namedFuncRegex", s, 1)} })

\* Lines 145-153.
ArrowFuncExports(s) ==
    Only({ [k \in DOMAIN ms |->
                   FunctionExport(ms[k].g1, ms[k].g2,
                                  Includes(Slice(s, ms[k].index, ms[k].index + 45), <<"a","s","y","n","c">>), FALSE)] :
           ms \in {AllMatches("arrowFuncRegex", s, 1)} })

\* Lines 155-165.
ClassExports(s) ==
    Only({ [k \in DOMAIN ms |->
                   ClassExport(ms[k].g1, ms[k].g2, extractClassMethods(s, ms[k].index))] :
           ms \in {AllMatches("classRegex", s, 1)} })

\* Lines 167-176.
DefaultFuncExports(s) ==
    Only({ [k \in DOMAIN ms |->
                   FunctionExport(IF ms[k].g1 # <<>> THEN ms[k].g1 ELSE <<"d","e","f","a","u","l","t">>, ms[k].g2,
                                  Includes(Slice(s, ms[k].index, ms[k].index + 35), <<"a","s","y","n","c">>), TRUE)] :
           ms \in {AllMatches("defaultFuncRegex", s, 1)} })

\* extractJSExports with the class pass run after the default-function pass.
extractJSExports_ClassesLast(s) ==
    NamedFuncExports(s) \o ArrowFuncExports(s) \o DefaultFuncExports(s) \o ClassExports(s)

\* Lines 131-179.
extractJSExports(s) ==
    NamedFuncExports(s) \o ArrowFuncExports(s) \o ClassExports(s) \o DefaultFuncExports(s)

(***************************************************************************)
(* extractJSExports applied to rendered sources (SpecExtract)              *)
(***************************************************************************)

\* A source is rendered from a sequence of declarations.  A declaration
\* records what was written (pass: 1 named function, 2 arrow function,
\* 3 class, 4 default function, 0 not exported; its name; whether the async
\* keyword was written; the names of the methods declared in a class) and
\* its text in three parts: pre up to its first "{", inner between that
\* brace and its closing brace, post after it.
Decl(pass, name, async, methods, pre, hasBrace, inner, closed, post) ==
    [pass |-> pass, name |-> name, async |-> async, methods |-> methods,
     pre |-> pre, hasBrace |-> hasBrace, inner |-> inner, closed |-> closed, post |-> post]

TextOf(d) ==
    d.pre \o (IF ~d.hasBrace THEN <<>>
              ELSE <<"{">> \o d.inner \o (IF d.closed THEN <<"}">> \o d.post ELSE <<>>))

RECURSIVE Render(_)
Render(ds) == IF ds = <<>> THEN <<>> ELSE TextOf(Head(ds)) \o Render(Tail(ds))

NamedFn(async, name, params) ==
    Decl(1, name, async, <<>>,
         <<"e","x","p","o","r","t"," ">> \o (IF async THEN <<"a","s","y","n","c"," ">> ELSE <<>>) \o <<"f","u","n","c","t","i","o","n"," ">>
             \o name \o <<"(">> \o params \o <<")"," ">>,
         TRUE, <<>>, TRUE, <<"\n">>)

ArrowFn(async, name, params) ==
    Decl(2, name, async, <<>>,
         <<"e","x","p","o","r","t"," ","c","o","n","s","t"," ">> \o name \o <<" ","="," ">> \o (IF async THEN <<"a","s","y","n","c"," ">> ELSE <<>>)
             \o <<"(">> \o params \o <<")"," ","=",">"," ","0","\n">>,
         FALSE, <<>>, TRUE, <<>>)

DefaultFn(async, name) ==
    Decl(4, IF name = <<>> THEN <<"d","e","f","a","u","l","t">> ELSE name, async, <<>>,
         <<"e","x","p","o","r","t"," ","d","e","f","a","u","l","t"," ">> \o (IF async THEN <<"a","s","y","n","c"," ">> ELSE <<>>) \o <<"f","u","n","c","t","i","o","n"," ">>
             \o name \o <<"(",")"," ">>,
         TRUE, <<>>, TRUE, <<"\n">>)

\* A method as written in a class body: its name and its text.
MethodText(name, text) == [name |-> name, text |-> text]

RECURSIVE BodyOf(_)
BodyOf(ms) == IF ms = <<>> THEN <<>> ELSE <<"\n"," "," ">> \o Head(ms).text \o BodyOf(Tail(ms))

ClassDecl(default, name, base, ms, closed) ==
    Decl(3, name, FALSE, [k \in DOMAIN ms |-> ms[k].name],
         <<"e","x","p","o","r","t"," ">> \o (IF default THEN <<"d","e","f","a","u","l","t"," ">> ELSE <<>>) \o <<"c","l","a","s","s"," ">> \o name
             \o (IF base # <<>> THEN <<" ","e","x","t","e","n","d","s"," ">> \o base ELSE <<>>) \o <<" ">>,
         TRUE, BodyOf(ms) \o <<"\n">>, closed, <<"\n">>)

BareClass == Decl(3, <<"B","a","r","e">>, FALSE, <<>>, <<"e","x","p","o","r","t"," ","c","l","a","s","s"," ","B","a","r","e","\n">>, FALSE, <<>>, TRUE, <<>>)

Helper ==
    Decl(0, <<"h","e","l","p","e","r">>, FALSE, <<>>, <<"f","u","n","c","t","i","o","n"," ","h","e","l","p","e","r","(","q",")"," ">>, TRUE, <<" ","r","e","t","u","r","n"," ","q"," ">>, TRUE, <<"\n">>)

BoxClass ==
    ClassDecl(FALSE, <<"B","o","x">>, <<"B","a","s","e">>, <<MethodText(<<"o","p","e","n">>, <<"o","p","e","n","(",")"," ","{","}">>)>>, TRUE)

\* The number of declarations of a source, and of methods of a class.
MaxDecls == 2
MaxMethods == 2

TopDecls == {
    NamedFn(FALSE, <<"a","d","d">>, <<"a",","," ","b">>),
    NamedFn(TRUE, <<"f","e","t","c","h","U","s","e","r">>, <<"i","d">>),
    NamedFn(FALSE, <<"a","s","y","n","c","T","a","s","k">>, <<>>),
    ArrowFn(FALSE, <<"s","q">>, <<"x">>),
    ArrowFn(TRUE, <<"a","d","d">>, <<"u">>),
    BoxClass,
    ClassDecl(TRUE, <<"B","o","x">>, <<>>, <<>>, TRUE),
    DefaultFn(FALSE, <<>>),
    DefaultFn(TRUE, <<"m","a","i","n">>),
    Helper }

MethodVariants == {
    MethodText(<<"r","u","n">>, <<"r","u","n","(",")"," ","{"," ","i","f"," ","(","a",")"," ","{"," ","b","(",")",";"," ","}"," ","}">>),
    MethodText(<<"l","o","a","d">>,
        <<"a","s","y","n","c"," ","l","o","a","d","(","u","r","l",")"," ","{"," ","f","o","r"," ","(","c","o","n","s","t"," ","k"," ","o","f"," ","k","s",")"," ","{"," ","i","f"," ","(","k"," ",">"," ","1",")"," ","{"," ","c","(","k",")",";"," ","}"," ","}"," ","}">>),
    MethodText(<<"s","i","z","e">>, <<"s","t","a","t","i","c"," ","g","e","t"," ","s","i","z","e","(",")"," ","{"," ","w","h","i","l","e"," ","(","o","k","(","x",")",")"," ","{"," ","x"," ","="," ","n","e","x","t","(","x",")",";"," ","}"," ","}">>),
    MethodText(<<"c","o","n","s","t","r","u","c","t","o","r">>, <<"c","o","n","s","t","r","u","c","t","o","r","(","a",","," ","b",")"," ","{"," ","s","w","i","t","c","h"," ","(","a",")"," ","{"," ","c","a","s","e"," ","1",":"," ","b","r","e","a","k",";"," ","}"," ","}">>),
    MethodText(<<"a","r","e","a">>, <<"a","r","e","a","(",")",":"," ","n","u","m","b","e","r"," ","{"," ","t","r","y"," ","{"," ","g","o","(",")",";"," ","}"," ","c","a","t","c","h"," ","(","e",")"," ","{"," ","l","o","g","(","e",")",";"," ","}"," ","}">>),
    MethodText(<<"s","t","o","p">>, <<"s","t","o","p","(",")"," ","{"," ","r","e","t","u","r","n"," ","f","(","a",")",";"," ","}">>) }

RECURSIVE SeqsUpTo(_, _)
SeqsUpTo(S, n) ==
    IF n = 0 THEN {<<>>}
    ELSE SeqsUpTo(S, n - 1) \cup
         { Append(s, x) : s \in {t \in SeqsUpTo(S, n - 1) : Len(t) = n - 1}, x \in S }

Trailing == {<<>>, <<Helper>>, <<BoxClass>>}

Inputs ==
    SeqsUpTo(TopDecls, MaxDecls)
    \cup { <<ClassDecl(FALSE, <<"S","h","a","p","e">>, <<>>, ms, closed)>> \o t :
             ms \in SeqsUpTo(MethodVariants, MaxMethods), closed \in BOOLEAN, t \in Trailing }
    \cup { <<BareClass>> \o t : t \in Trailing }

\* The value of exports before the call: no result of the call equals it.
NotRun == <<[type |-> "none", name |-> <<>>, signature |-> <<>>, async |-> FALSE,
             isDefault |-> FALSE, extends |-> <<>>, methods |-> <<>>]>>

InitExtract ==
    /\ input \in Inputs
    /\ source = Render(input)
    /\ exports = NotRun
    /\ FsIdle
    /\ ManifestIdle

\* exports = extractJSExports(source), line 255.
ExtractExports ==
    /\ exports = NotRun
    /\ exports' = extractJSExports(source)
    /\ UNCHANGED <<input, source, fsVars, manifestVars>>

NextExtract == ExtractExports

SpecExtract == InitExtract /\ [][NextExtract]_vars

(***************************************************************************)
(* Properties of extractJSExports and extractClassMethods (SpecExtract)    *)
(***************************************************************************)

Extracted == exports # NotRun

\* The declarations of input written for one pass, in source order.
RECURSIVE OfPass(_, _)
OfPass(ds, pass) ==
    IF ds = <<>> THEN <<>>
    ELSE (IF Head(ds).pass = pass THEN <<Head(ds)>> ELSE <<>>) \o OfPass(Tail(ds), pass)

\* What identifies an entry of exports, and a declaration as that entry.
EntryKey(e) == [type |-> e.type, name |-> e.name, isDefault |-> e.isDefault]
DeclKey(d) ==
    [type |-> IF d.pass = 3 THEN "class" ELSE "function", name |-> d.name,
     isDefault |-> d.pass = 4]

ExpectedKeys ==
    LET ds == OfPass(input, 1) \o OfPass(input, 2) \o OfPass(input, 3) \o OfPass(input, 4)
    IN  [k \in DOMAIN ds |-> DeclKey(ds[k])]

\* C7: exports lists the named function exports, then the arrow-function
\* exports, then the class exports, then the default function exports, each
\* group in source order, one entry per declaration, duplicates included.
C7_FourPassesInOrder ==
    Extracted
        => /\ Len(exports) = Len(ExpectedKeys)
           /\ \A k \in DOMAIN exports : EntryKey(exports[k]) = ExpectedKeys[k]

\* C7 witness: a class written before an arrow function; the entry of the
\* function comes first.
C7_Witness ==
    /\ Extracted
    /\ Len(input) = 2
    /\ input[1].pass = 3 /\ input[2].pass = 2
    /\ input[1].name = <<"B","o","x">>
    /\ Len(exports) = 2
    /\ exports[1].type = "function" /\ exports[2].type = "class"

\* The class entries of exports, and the class declarations of input.
ClassEntries == SelectSeq(exports, LAMBDA e : e.type = "class")
ClassDecls == OfPass(input, 3)
MethodNames(e) == [k \in DOMAIN e.methods |-> e.methods[k].name]

\* C8: for a class with its closing brace, whose methods hold control
\* statements, methods lists exactly the declared methods, once each, in
\* source order, and no entry of any methods sequence is named if, for,
\* while, switch or catch.
C8_DeclaredMethodsOnly ==
    Extracted
        => /\ Len(ClassEntries) = Len(ClassDecls)
           /\ \A k \in DOMAIN ClassEntries :
                /\ (ClassDecls[k].hasBrace /\ ClassDecls[k].closed)
                       => MethodNames(ClassEntries[k]) = ClassDecls[k].methods
                /\ \A j \in DOMAIN ClassEntries[k].methods :
                       ClassEntries[k].methods[j].name
                           \notin {<<"i","f">>, <<"f","o","r">>, <<"w","h","i","l","e">>, <<"s","w","i","t","c","h">>, <<"c","a","t","c","h">>}

\* C8 witness: a class of two methods, one with try/catch and one with
\* for and if in its body, reported as these two methods.
C8_Witness ==
    /\ Extracted
    /\ Len(ClassEntries) = 1
    /\ MethodNames(ClassEntries[1]) = <<<<"a","r","e","a">>, <<"l","o","a","d">>>>
    /\ ClassDecls[1].closed

\* C9: a named function export has async TRUE when it was written with the
\* async keyword and FALSE when it was written without it.
C9_AsyncFlagIsKeyword ==
    Extracted
        => \A k \in DOMAIN OfPass(input, 1) :
               k \in DOMAIN exports /\ exports[k].async = OfPass(input, 1)[k].async

\* The text a class's methods are to be taken from, by the way the source
\* was rendered: the inner text of the class when its closing brace is
\* written; that and everything after it when it is not; and for a class
\* without any brace the inner text of the first braced declaration after
\* it.  found is FALSE when no "{" follows the class offset at all.
RECURSIVE FirstBraced(_)
FirstBraced(ds) ==
    IF ds = <<>> THEN [found |-> FALSE, text |-> <<>>]
    ELSE IF Head(ds).hasBrace
    THEN [found |-> TRUE,
          text |-> IF Head(ds).closed THEN Head(ds).inner
                   ELSE Head(ds).inner \o Render(Tail(ds))]
    ELSE FirstBraced(Tail(ds))

\* The position in input of its k-th class declaration.
ClassPos(k) ==
    CHOOSE p \in DOMAIN input :
        /\ input[p].pass = 3
        /\ Len(OfPass(SubSeq(input, 1, p), 3)) = k

BodyFor(k) == FirstBraced(SubSeq(input, ClassPos(k), Len(input)))

\* C10: the methods of a class are those found in the text between the
\* first "{" at or after the class offset and the brace that closes it (the
\* end of the source when none does), and there are none when no "{"
\* follows; nothing after the closing brace is reported.
C10_BodyDelimitedByBraces ==
    Extracted
        => /\ Len(ClassEntries) = Len(ClassDecls)
           /\ \A k \in DOMAIN ClassEntries :
                  ClassEntries[k].methods =
                      (IF BodyFor(k).found THEN MethodsIn(BodyFor(k).text) ELSE <<>>)

\* C10 witness: a closed class with a method, followed by a function whose
\* text has the shape of a method, which is not reported.
C10_Witness ==
    /\ Extracted
    /\ Len(input) = 2
    /\ input[1].pass = 3 /\ input[1].closed /\ input[1].methods = <<<<"r","u","n">>>>
    /\ input[2] = Helper
    /\ MethodNames(ClassEntries[1]) = <<<<"r","u","n">>>>
    /\ MethodsIn(Render(input)) # ClassEntries[1].methods

====
